---- MODULE Spec2Model ----
(***************************************************************************)
(* Workflow orchestration and portfolio ledger of the CS2 trading system.  *)
(*                                                                         *)
(* Monetary amounts (cashflow, price, value, total_assets) are integers in *)
(* cents: the schema stores them as DECIMAL(15,2).  The intermediate       *)
(* results the code rounds with round(x, 2) are kept in hundredths of a    *)
(* cent and rounded by Round2.  Trading dates are the integers             *)
(* 1..MaxDate, 0 stands for None.  One experiment configuration            *)
(* (config_id) is modelled.                                                *)
(***************************************************************************)
EXTENDS Integers, Sequences, FiniteSets, TLC

VARIABLES
    db,                      \* rows of table cs2_portfolio (one config_id)
    clock,                   \* datetime.now(): the next updated_at stamp
    next_id,                 \* uuid4(): the next fresh portfolio id
    pc,                      \* position of the trading-date run
    failure,                 \* why the last run failed ("" if it did not)
    trading_date,            \* config['trading_date'] of the run
    enable_transaction_fee,  \* config['enable_transaction_fee'] of the experiment
    idx,                     \* index into tickers of the ticker processed next
    portfolio,               \* the in-memory Portfolio threaded through run()
    init_portfolio,          \* the snapshot copy_portfolio returned to __init__
    db_at_start,             \* history: db when the run was started
    copy_log,                \* history: ids copy_portfolio returned, per date
    runs,                    \* number of runs started so far
    prev,                    \* history: portfolio before the last ledger update
    dec,                     \* history: the last Decision applied, with its ticker
    steps,                   \* number of ledger updates applied (ledger spec)
    updates,                 \* history: update_portfolio calls of the run
    db_failed,               \* history: the database call of the run that failed
    \* the pipeline of one ticker (pipeline spec)
    configured,              \* config['workflow_analysts'] as configured
    planner_mode,            \* config['planner_mode']
    workflow_analysts,       \* self.workflow_analysts, validated
    current_analysts,        \* self.current_analysts
    graph,                   \* the compiled StateGraph: nodes and edges
    active,                  \* the nodes scheduled in the current superstep
    executed,                \* the nodes of the superstep that have run
    writes,                  \* analyst_signals returned in the superstep
    analyst_signals,         \* state["analyst_signals"]
    state_portfolio,         \* state["portfolio"] of the FundState
    state_decision,          \* state["decision"]
    seen,                    \* history: the signals each decision step read
    calls,                   \* history: invocations for the current ticker
    applied,                 \* history: the decisions applied in the run
    cs2_signal,              \* table cs2_signal: the rows save_signal inserted
    save_failed,             \* history: a save_signal call returned None
    \* the step registry (registry spec)
    agent_func_mapping,      \* AgentRegistry.agent_func_mapping
    resolved,                \* history: the last get_agent_func_by_key call
    \* the batch driver (batch spec) and the repeated run (re-run spec)
    start_date,              \* args.start_date of main
    end_date,                \* args.end_date of main
    current_date,            \* current_date of main's loop
    batch_pc,                \* position of main
    batch_log,               \* history: the dates main ran, with their result
    first_run                \* history: the first completed run of a date

pipe_vars == <<configured, planner_mode, workflow_analysts, current_analysts,
               graph, active, executed, writes, analyst_signals,
               state_portfolio, state_decision, seen, calls, applied,
               cs2_signal, save_failed>>

reg_vars == <<agent_func_mapping, resolved>>

drv_vars == <<start_date, end_date, current_date, batch_pc, batch_log,
              first_run>>

vars == <<db, clock, next_id, pc, failure, trading_date, enable_transaction_fee,
          idx, portfolio, init_portfolio, db_at_start, copy_log, runs,
          prev, dec, steps, updates, db_failed, pipe_vars, reg_vars,
          drv_vars>>

---------------------------------------------------------------------------
(* Bounds of the model *)

MaxReq   == 2      \* largest requested share quantity of a Decision
MaxPrice == 1      \* largest price (cents) besides the tie price
MinPrice == 0 - 1  \* smallest price (cents); prices <= 0 reach the ledger
MaxCash  == 1      \* largest starting cashflow (cents) of the ledger spec
MaxSteps == 2      \* ledger updates per behaviour of the ledger spec
MaxDate  == 3      \* trading dates are 1..MaxDate
MaxAnalysts == 2   \* longest configured workflow_analysts list
MaxRuns  == 3      \* trading-date runs per behaviour

Tickers == {"A", "B"}
tickers == <<"A", "B">>          \* config['tickers'], caller-supplied order
StartCash == {5}                 \* config['cashflow'], cents
StartHeld == {0, 1}              \* starting holdings of the ledger spec

Actions == {"Buy", "Sell", "Hold"}
\* prices <= 0 reach the ledger; 98% of 25 cents falls exactly between two cents
Prices == (MinPrice..MaxPrice) \cup {25}
\* a Decision: action, requested shares (an integer >= 0), settlement price
Decisions == [action : Actions, shares : 0..MaxReq, price : Prices]
\* the Decisions the pipelines of a trading-date run return: one share at
\* one cent or at the tie price
RunDecisions == {d \in Decisions : d.shares = 1 /\ d.price \in {1, 25}}

---------------------------------------------------------------------------
(* Ledger Engine: AgentWorkflow.update_portfolio_ticker *)

TRANSACTION_FEE_RATE == 2        \* per cent: 0.02

Min(a, b) == IF a <= b THEN a ELSE b

\* round(x, 2) of an amount x given in hundredths of a cent; the result is in
\* cents.  On an exact tie the binary floating-point value of x lies on
\* either side of the tie, so both neighbours are possible results.
Round2(x) ==
    LET q == x \div 100
        r == x % 100
    IN  IF r < 50 THEN {q}
        ELSE IF r > 50 THEN {q + 1}
        ELSE {q, q + 1}

\* Mutant: the affordable quantity rounded up instead of down
max_affordable_shares_ceil(cashflow, price) ==
    IF price > 0 THEN (cashflow + price - 1) \div price ELSE 0

\* int(portfolio.cashflow // price) if price > 0 else 0
max_affordable_shares(cashflow, price) ==
    IF price > 0 THEN cashflow \div price ELSE 0

\* min(shares, max_affordable_shares)
buy_actual_shares(cashflow, shares, price) ==
    Min(shares, max_affordable_shares(cashflow, price))

\* min(shares, max_sellable_shares), max_sellable_shares = position shares
sell_actual_shares(held, shares) == Min(shares, held)

\* Mutant: the sell fee charged whatever the flag says
sell_proceeds_fee_always(price, actual_shares, fee) ==
    price * actual_shares * (100 - TRANSACTION_FEE_RATE)

\* Mutant: the sell fee never charged
sell_proceeds_no_fee(price, actual_shares, fee) == price * actual_shares * 100

\* What a Sell adds to the cashflow, in hundredths of a cent:
\* price * actual_shares * (1 - TRANSACTION_FEE_RATE) with the fee,
\* price * actual_shares without it.
sell_proceeds(price, actual_shares, fee) ==
    IF fee THEN price * actual_shares * (100 - TRANSACTION_FEE_RATE)
           ELSE price * actual_shares * 100

\* Mutant: the fee charged on a Buy as well
buy_cost_with_fee(price, actual_shares, fee) ==
    IF fee THEN price * actual_shares * (100 + TRANSACTION_FEE_RATE)
           ELSE price * actual_shares * 100

\* What a Buy takes from the cashflow, in hundredths of a cent.
buy_cost(price, actual_shares, fee) == price * actual_shares * 100

\* portfolio.positions with a Position(shares=0, value=0) for an absent ticker
with_position(positions, ticker) ==
    IF ticker \in DOMAIN positions THEN positions
    ELSE [t \in (DOMAIN positions) \cup {ticker} |->
            IF t = ticker THEN [shares |-> 0, value |-> 0] ELSE positions[t]]

\* Mutant: a Hold that carries shares is executed as a Sell
shares_delta_hold_sells(action, cashflow, held, shares, price) ==
    CASE action = "Buy"  -> buy_actual_shares(cashflow, shares, price)
      [] OTHER           -> 0 - sell_actual_shares(held, shares)

\* The change of the ticker's shares for the action
shares_delta(action, cashflow, held, shares, price) ==
    CASE action = "Buy"  -> buy_actual_shares(cashflow, shares, price)
      [] action = "Sell" -> 0 - sell_actual_shares(held, shares)
      [] OTHER           -> 0

\* The change of the cashflow for the action, in hundredths of a cent
cash_delta(action, cashflow, held, shares, price, fee) ==
    CASE action = "Buy"  ->
            0 - buy_cost(price, buy_actual_shares(cashflow, shares, price), fee)
      [] action = "Sell" ->
            sell_proceeds(price, sell_actual_shares(held, shares), fee)
      [] OTHER           -> 0

\* Mutant: the value is recomputed only when the shares were traded
position_value_stale_on_hold(action, price, new_shares, old_value) ==
    IF action = "Hold" THEN {old_value} ELSE Round2(price * new_shares * 100)

\* round(price * portfolio.positions[ticker].shares, 2), the position's value
position_value(action, price, new_shares, old_value) ==
    Round2(price * new_shares * 100)

\* The portfolios update_portfolio_ticker can return
update_portfolio_ticker(p, ticker, decision, fee) ==
    LET pos0       == with_position(p.positions, ticker)
        held       == pos0[ticker].shares
        new_shares == held + shares_delta(decision.action, p.cashflow, held,
                                          decision.shares, decision.price)
        raw_cash   == p.cashflow * 100
                      + cash_delta(decision.action, p.cashflow, held,
                                   decision.shares, decision.price, fee)
    IN  { [p EXCEPT !.positions =
                        [pos0 EXCEPT ![ticker] =
                            [shares |-> new_shares, value |-> v]],
                    !.cashflow = c] :
            c \in Round2(raw_cash),
            v \in position_value(decision.action, decision.price,
                                 new_shares, pos0[ticker].value) }

---------------------------------------------------------------------------
(* Ledger specification: update_portfolio_ticker applied to portfolios     *)
(* that start with cashflow >= 0 and no negative holdings.                 *)

NoPortfolio == [id |-> 0, cashflow |-> 0, positions |-> <<>>]
NoDecision  == [action |-> "Hold", shares |-> 0, price |-> 0, ticker |-> "A"]
NoGraph     == [nodes |-> {}, edges |-> {}]
NoCalls     == [planner |-> 0, planner_ret |-> <<>>, decision |-> 0,
                analysts |-> <<>>, order |-> <<>>, produced |-> {},
                fetch_failed |-> {}, rejected |-> <<>>]
NoResolve   == [key |-> "", registered |-> FALSE, result |-> ""]

\* the pipeline of a ticker when none is built
PipeIdle ==
    /\ current_analysts = <<>>
    /\ graph = NoGraph
    /\ active = {}
    /\ executed = {}
    /\ writes = {}
    /\ analyst_signals = {}
    /\ state_portfolio = NoPortfolio
    /\ state_decision = NoDecision
    /\ seen = <<>>
    /\ calls = NoCalls
    /\ applied = <<>>
    /\ cs2_signal = <<>>
    /\ save_failed = FALSE

\* the experiment runs without analysts (direct mode), nothing is resolved
NoPipeline ==
    /\ configured = <<>>
    /\ planner_mode = FALSE
    /\ workflow_analysts = <<>>
    /\ PipeIdle
    /\ agent_func_mapping = <<>>
    /\ resolved = NoResolve

NoRun == [id |-> 0, cashflow |-> 0, positions |-> <<>>, applied |-> <<>>]

\* main is not running and no run has been recorded
NoBatch ==
    /\ start_date = 0
    /\ end_date = 0
    /\ current_date = 0
    /\ batch_pc = "none"
    /\ batch_log = <<>>
    /\ first_run = NoRun

StartPositions ==
    UNION { [S -> {[shares |-> s, value |-> s] : s \in StartHeld}] :
              S \in SUBSET Tickers }

InitLedger ==
    /\ db = {}
    /\ clock = 1
    /\ next_id = 1
    /\ pc = "ledger"
    /\ failure = ""
    /\ trading_date = 0
    /\ enable_transaction_fee \in BOOLEAN
    /\ idx = 0
    /\ portfolio \in [id : {1}, cashflow : 0..MaxCash,
                      positions : StartPositions]
    /\ init_portfolio = portfolio
    /\ db_at_start = {}
    /\ copy_log = [d \in 1..MaxDate |-> <<>>]
    /\ runs = 0
    /\ prev = portfolio
    /\ dec = NoDecision
    /\ steps = 0
    /\ updates = 0
    /\ db_failed = ""
    /\ NoBatch
    /\ NoPipeline

ApplyDecision ==
    /\ pc = "ledger"
    /\ steps < MaxSteps
    /\ \E t \in Tickers, d \in Decisions :
         /\ portfolio' \in update_portfolio_ticker(portfolio, t, d,
                                                    enable_transaction_fee)
         /\ dec' = [action |-> d.action, shares |-> d.shares,
                    price |-> d.price, ticker |-> t]
    /\ prev' = portfolio
    /\ steps' = steps + 1
    /\ UNCHANGED <<db, clock, next_id, pc, failure, trading_date,
                   enable_transaction_fee, idx, init_portfolio, db_at_start,
                   copy_log, runs, updates, db_failed, pipe_vars, reg_vars, drv_vars>>

NextLedger == ApplyDecision

SpecLedger == InitLedger /\ [][NextLedger]_vars

---------------------------------------------------------------------------
(* Persistence: CS2SQLiteDB on table cs2_portfolio *)

RECURSIVE SumValues(_, _)
\* sum(position['value'] for position in positions.values())
SumValues(positions, S) ==
    IF S = {} THEN 0
    ELSE LET t == CHOOSE x \in S : TRUE
         IN  positions[t].value + SumValues(positions, S \ {t})

\* cashflow + sum of the position values, as copy/update_portfolio compute it
total_assets_of(cashflow, positions) ==
    cashflow + SumValues(positions, DOMAIN positions)

\* ORDER BY updated_at DESC LIMIT 1
latest_row(d) == CHOOSE r \in d : \A s \in d : s.updated_at <= r.updated_at

\* get_latest_trading_date: None (0) when the config has no portfolio
get_latest_trading_date(d) ==
    IF d = {} THEN 0 ELSE latest_row(d).trading_date

\* Mutant: get_latest_portfolio returns the row written first
get_latest_portfolio_oldest(d) ==
    CHOOSE r \in d : \A s \in d : r.updated_at <= s.updated_at

\* get_latest_portfolio, for a config that has a portfolio
get_latest_portfolio(d) == latest_row(d)

\* create_portfolio: the row it inserts (and returns)
create_portfolio(cashflow, date, id, now) ==
    [id |-> id, trading_date |-> date, cashflow |-> cashflow,
     total_assets |-> cashflow, positions |-> <<>>, updated_at |-> now]

\* Mutant: copy_portfolio without the check for an existing row
copy_portfolio_always_insert(d, src, date, id, now) ==
    LET row == [id |-> id, trading_date |-> date, cashflow |-> src.cashflow,
                total_assets |-> total_assets_of(src.cashflow, src.positions),
                positions |-> src.positions, updated_at |-> now]
    IN  {[db |-> d \cup {row}, ret |-> row]}

\* copy_portfolio: the possible outcomes [db, ret]: the existing row of the
\* date (SELECT ... LIMIT 1) if there is one, else a new row that carries the
\* source portfolio's cashflow and positions
copy_portfolio(d, src, date, id, now) ==
    LET existing == {r \in d : r.trading_date = date}
        row == [id |-> id, trading_date |-> date, cashflow |-> src.cashflow,
                total_assets |-> total_assets_of(src.cashflow, src.positions),
                positions |-> src.positions, updated_at |-> now]
    IN  IF existing # {}
        THEN {[db |-> d, ret |-> r] : r \in existing}
        ELSE {[db |-> d \cup {row}, ret |-> row]}

\* Mutant: update_portfolio leaves the stored total_assets as it was
update_portfolio_stale_total(d, p, date, now) ==
    [db |-> {IF r.trading_date = date
             THEN [r EXCEPT !.cashflow = p.cashflow,
                            !.positions = p.positions,
                            !.updated_at = now]
             ELSE r : r \in d},
     success |-> \E r \in d : r.trading_date = date]

\* Mutant: update_portfolio without the trading_date condition
update_portfolio_every_date(d, p, date, now) ==
    [db |-> {[r EXCEPT !.cashflow = p.cashflow,
                       !.total_assets =
                           total_assets_of(p.cashflow, p.positions),
                       !.positions = p.positions,
                       !.updated_at = now] : r \in d},
     success |-> \E r \in d : r.trading_date = date]

\* update_portfolio: UPDATE ... WHERE config_id = ? AND trading_date = ?;
\* success is cursor.rowcount > 0
update_portfolio(d, p, date, now) ==
    [db |-> {IF r.trading_date = date
             THEN [r EXCEPT !.cashflow = p.cashflow,
                            !.total_assets =
                                total_assets_of(p.cashflow, p.positions),
                            !.positions = p.positions,
                            !.updated_at = now]
             ELSE r : r \in d},
     success |-> \E r \in d : r.trading_date = date]

\* Portfolio(**new_portfolio): the in-memory portfolio of a row
as_portfolio(row) ==
    [id |-> row.id, cashflow |-> row.cashflow, positions |-> row.positions]

---------------------------------------------------------------------------
(* Trading-Date Driver: run_single_experiment / main, AgentWorkflow.__init__ *)
(* and AgentWorkflow.run                                                    *)

\* Mutant: the order check compares the wrong way round
order_violation_reversed(latest, date) == latest # 0 /\ latest < date

\* latest_trading_date and latest_trading_date > cfg["trading_date"]
order_violation(latest, date) == latest # 0 /\ latest > date

Init ==
    /\ db = {}
    /\ clock = 1
    /\ next_id = 1
    /\ pc = "idle"
    /\ failure = ""
    /\ trading_date = 0
    /\ enable_transaction_fee \in BOOLEAN
    /\ idx = 0
    /\ portfolio = NoPortfolio
    /\ init_portfolio = NoPortfolio
    /\ db_at_start = {}
    /\ copy_log = [d \in 1..MaxDate |-> <<>>]
    /\ runs = 0
    /\ prev = NoPortfolio
    /\ dec = NoDecision
    /\ steps = 0
    /\ updates = 0
    /\ db_failed = ""
    /\ NoBatch
    /\ NoPipeline

\* the database calls of __init__ that may fail (the helper catches the
\* exception and returns None): create_portfolio when the config has no
\* portfolio, copy_portfolio always
db_faults(fresh) == IF fresh THEN {"create", "copy"} ELSE {"copy"}

\* Mutant: run() returns normally whatever update_portfolio returned
run_outcome_ignored(success) == "done"

\* the end of run(): RuntimeError unless update_portfolio returned True
run_outcome(success) == IF success THEN "done" ELSE "failed"

\* the outcomes of the update_portfolio call: the UPDATE is committed, or it
\* raises, the helper catches the exception and returns False
update_portfolio_outcomes(d, p, date, now) ==
    {update_portfolio(d, p, date, now), [db |-> d, success |-> FALSE]}

\* run_single_experiment up to the end of AgentWorkflow.__init__: the
\* chronological-order check, then load or create the latest portfolio and
\* copy it to the trading date. A create_portfolio that returns None raises
\* RuntimeError, a copy_portfolio that returns None makes Portfolio(**None)
\* raise TypeError: the run ends.
run_single_experiment(date) ==
    /\ runs' = runs + 1
    /\ db_at_start' = db
    /\ \E cash \in StartCash :
         /\ trading_date' = date
         /\ IF order_violation(get_latest_trading_date(db), date)
            THEN /\ pc' = "failed"
                 /\ failure' = "order"
                 /\ idx' = 0
                 /\ portfolio' = NoPortfolio
                 /\ init_portfolio' = NoPortfolio
                 /\ db_failed' = ""
                 /\ UNCHANGED <<db, clock, next_id, copy_log>>
            ELSE LET fresh == db = {}
                     d1 == IF fresh
                           THEN {create_portfolio(cash, date, next_id, clock)}
                           ELSE db
                     id2 == IF fresh THEN next_id + 1 ELSE next_id
                     now2 == IF fresh THEN clock + 1 ELSE clock
                 IN  \/ \E out \in copy_portfolio(d1,
                                                  get_latest_portfolio(d1),
                                                  date, id2, now2) :
                          /\ db' = out.db
                          /\ portfolio' = as_portfolio(out.ret)
                          /\ init_portfolio' = as_portfolio(out.ret)
                          /\ copy_log' = [copy_log EXCEPT
                                            ![date] = Append(@, out.ret.id)]
                          /\ next_id' = IF out.ret.id = id2
                                        THEN id2 + 1 ELSE id2
                          /\ clock' = IF out.ret.id = id2
                                      THEN now2 + 1 ELSE now2
                          /\ pc' = "running"
                          /\ failure' = ""
                          /\ idx' = 1
                          /\ db_failed' = ""
                     \/ \E call \in db_faults(fresh) :
                          /\ db' = IF call = "copy" THEN d1 ELSE db
                          /\ next_id' = IF call = "copy" THEN id2 ELSE next_id
                          /\ clock' = IF call = "copy" THEN now2 ELSE clock
                          /\ db_failed' = call
                          /\ pc' = "failed"
                          /\ failure' = call
                          /\ idx' = 0
                          /\ portfolio' = NoPortfolio
                          /\ init_portfolio' = NoPortfolio
                          /\ UNCHANGED copy_log
    /\ updates' = 0

\* A start of the program for one trading date. main leaves the process
\* (sys.exit(1)) when a run fails; a later start of the program is followed
\* to its end unless the database itself has failed.
StartRun ==
    /\ pc \in {"idle", "done", "failed"}
    /\ db_failed = ""
    /\ runs < MaxRuns
    /\ \E date \in 1..MaxDate : run_single_experiment(date)
    /\ UNCHANGED <<enable_transaction_fee, prev, dec, steps,
                   pipe_vars, reg_vars, drv_vars>>

\* Mutant: the portfolio is written after every ticker
TickerStep_persist_each ==
    /\ pc = "running"
    /\ idx <= Len(tickers)
    /\ \E d \in RunDecisions :
         \E p2 \in update_portfolio_ticker(portfolio, tickers[idx], d,
                                           enable_transaction_fee) :
           LET res == update_portfolio(db, p2, trading_date, clock)
           IN  /\ portfolio' = p2
               /\ db' = res.db
               /\ clock' = clock + 1
               /\ updates' = updates + 1
               /\ db_failed' = ""
               /\ IF idx < Len(tickers)
                  THEN UNCHANGED <<pc, failure>>
                  ELSE /\ pc' = IF res.success THEN "done" ELSE "failed"
                       /\ failure' = IF res.success THEN "" ELSE "persist"
    /\ idx' = idx + 1
    /\ UNCHANGED <<next_id, trading_date, enable_transaction_fee,
                   init_portfolio, db_at_start, copy_log, runs,
                   prev, dec, steps, pipe_vars, reg_vars, drv_vars>>

\* One iteration of the ticker loop of run() whose pipeline returns a
\* Decision: update_portfolio_ticker; after the last ticker the final
\* portfolio is written with update_portfolio.
TickerStep ==
    /\ pc = "running"
    /\ idx <= Len(tickers)
    /\ \E d \in RunDecisions :
         \E p2 \in update_portfolio_ticker(portfolio, tickers[idx], d,
                                           enable_transaction_fee) :
           /\ portfolio' = p2
           /\ IF idx < Len(tickers)
              THEN /\ UNCHANGED <<db, clock, pc, failure, updates, db_failed>>
              ELSE \E res \in update_portfolio_outcomes(db, p2, trading_date,
                                                        clock) :
                       /\ db' = res.db
                       /\ clock' = clock + 1
                       /\ updates' = updates + 1
                       /\ db_failed' = IF res.success THEN "" ELSE "update"
                       /\ pc' = run_outcome(res.success)
                       /\ failure' = IF res.success THEN "" ELSE "persist"
    /\ idx' = idx + 1
    /\ UNCHANGED <<next_id, trading_date, enable_transaction_fee,
                   init_portfolio, db_at_start, copy_log, runs,
                   prev, dec, steps, pipe_vars, reg_vars, drv_vars>>

\* Mutant: the abort path writes the partially updated portfolio
PipelineError_persisting ==
    /\ pc = "running"
    /\ idx <= Len(tickers)
    /\ pc' = "failed"
    /\ failure' = "pipeline"
    /\ db' = update_portfolio(db, portfolio, trading_date, clock).db
    /\ clock' = clock + 1
    /\ UNCHANGED <<next_id, trading_date, enable_transaction_fee,
                   idx, portfolio, init_portfolio, db_at_start, copy_log,
                   runs, prev, dec, steps, updates, db_failed, pipe_vars, reg_vars, drv_vars>>

\* One iteration of the ticker loop whose pipeline raises (load_analysts
\* raises ValueError, or workflow.invoke raises and run() re-raises
\* RuntimeError): the run ends, update_portfolio is not reached.
PipelineError ==
    /\ pc = "running"
    /\ idx <= Len(tickers)
    /\ pc' = "failed"
    /\ failure' = "pipeline"
    /\ UNCHANGED <<db, clock, next_id, trading_date, enable_transaction_fee,
                   idx, portfolio, init_portfolio, db_at_start, copy_log,
                   runs, prev, dec, steps, updates, db_failed, pipe_vars, reg_vars, drv_vars>>

Next == StartRun \/ TickerStep \/ PipelineError

Spec == Init /\ [][Next]_vars

---------------------------------------------------------------------------
(* Batch driver: main of run.py, one run_experiment per date of the range *)

\* Mutant: main goes on to the next date whatever run_experiment returned
batch_after_always_next(success) == "loop"

\* if not success: sys.exit(1), else the loop goes on
batch_after(success) == IF success THEN "loop" ELSE "exit"

\* main up to the loop: start_date > end_date exits at once
InitBatch ==
    /\ db = {}
    /\ clock = 1
    /\ next_id = 1
    /\ pc = "idle"
    /\ failure = ""
    /\ trading_date = 0
    /\ enable_transaction_fee \in BOOLEAN
    /\ idx = 0
    /\ portfolio = NoPortfolio
    /\ init_portfolio = NoPortfolio
    /\ db_at_start = {}
    /\ copy_log = [d \in 1..MaxDate |-> <<>>]
    /\ runs = 0
    /\ prev = NoPortfolio
    /\ dec = NoDecision
    /\ steps = 0
    /\ updates = 0
    /\ db_failed = ""
    /\ NoPipeline
    /\ start_date \in 1..MaxDate
    /\ end_date \in 1..MaxDate
    /\ current_date = start_date
    /\ batch_pc = IF start_date > end_date THEN "exit" ELSE "loop"
    /\ batch_log = <<>>
    /\ first_run = NoRun

\* while current_date <= end_date: run_experiment(date_str, ...) is entered
BatchRunDate ==
    /\ batch_pc = "loop"
    /\ pc = "idle"
    /\ current_date <= end_date
    /\ run_single_experiment(current_date)
    /\ batch_log' = Append(batch_log,
                           [date |-> current_date, result |-> "running"])
    /\ UNCHANGED <<enable_transaction_fee, prev, dec, steps, pipe_vars,
                   reg_vars, start_date, end_date, current_date, batch_pc,
                   first_run>>

\* run_experiment returns True, or False when run_single_experiment raised;
\* main exits on False and steps to the next day on True
BatchReturn ==
    /\ batch_pc = "loop"
    /\ pc \in {"done", "failed"}
    /\ LET success == pc = "done"
       IN  /\ batch_log' = [batch_log EXCEPT ![Len(batch_log)].result =
                                IF success THEN "ok" ELSE "failed"]
           /\ batch_pc' = batch_after(success)
           /\ current_date' = IF batch_after(success) = "loop"
                              THEN current_date + 1 ELSE current_date
    /\ pc' = "idle"
    /\ UNCHANGED <<db, clock, next_id, failure, trading_date,
                   enable_transaction_fee, idx, portfolio, init_portfolio,
                   db_at_start, copy_log, runs, prev, dec, steps, updates,
                   db_failed, pipe_vars, reg_vars, start_date, end_date,
                   first_run>>

\* the loop condition fails: the summary is printed
BatchEnd ==
    /\ batch_pc = "loop"
    /\ pc = "idle"
    /\ current_date > end_date
    /\ batch_pc' = "completed"
    /\ UNCHANGED <<db, clock, next_id, pc, failure, trading_date,
                   enable_transaction_fee, idx, portfolio, init_portfolio,
                   db_at_start, copy_log, runs, prev, dec, steps, updates,
                   db_failed, pipe_vars, reg_vars, start_date, end_date,
                   current_date, batch_log, first_run>>

NextBatch ==
    BatchRunDate \/ TickerStep \/ PipelineError \/ BatchReturn \/ BatchEnd

SpecBatch == InitBatch /\ [][NextBatch]_vars

---------------------------------------------------------------------------
(* Repeated runs of one trading date whose pipelines return the decisions *)
(* of the first completed run                                             *)

\* A start of the program; after the first start, for the same date again
RerunStart ==
    /\ pc \in {"idle", "done", "failed"}
    /\ db_failed = ""
    /\ runs < MaxRuns
    /\ \E date \in 1..MaxDate :
         /\ runs = 0 \/ date = trading_date
         /\ run_single_experiment(date)
    /\ applied' = <<>>
    /\ UNCHANGED <<enable_transaction_fee, prev, dec, steps, configured,
                   planner_mode, workflow_analysts, current_analysts, graph,
                   active, executed, writes, analyst_signals,
                   state_portfolio, state_decision, seen, calls, cs2_signal,
                   save_failed, reg_vars, start_date, end_date,
                   current_date, batch_pc, batch_log, first_run>>

\* One iteration of the ticker loop of run(), as TickerStep; once a run of
\* the date has completed the pipelines return the decisions of that run.
RerunTicker ==
    /\ pc = "running"
    /\ idx <= Len(tickers)
    /\ \E d \in RunDecisions :
         /\ first_run # NoRun => d = first_run.applied[idx].decision
         /\ \E p2 \in update_portfolio_ticker(portfolio, tickers[idx], d,
                                              enable_transaction_fee) :
              LET applied2 == Append(applied, [ticker |-> tickers[idx],
                                               decision |-> d])
              IN  /\ portfolio' = p2
                  /\ applied' = applied2
                  /\ IF idx < Len(tickers)
                     THEN UNCHANGED <<db, clock, pc, failure, updates,
                                      db_failed, first_run>>
                     ELSE \E res \in update_portfolio_outcomes(
                                         db, p2, trading_date, clock) :
                            /\ db' = res.db
                            /\ clock' = clock + 1
                            /\ updates' = updates + 1
                            /\ db_failed' = IF res.success
                                            THEN "" ELSE "update"
                            /\ pc' = run_outcome(res.success)
                            /\ failure' = IF res.success
                                          THEN "" ELSE "persist"
                            /\ first_run' =
                                 IF first_run = NoRun /\ res.success
                                 THEN [id |-> p2.id,
                                       cashflow |-> p2.cashflow,
                                       positions |-> p2.positions,
                                       applied |-> applied2]
                                 ELSE first_run
    /\ idx' = idx + 1
    /\ UNCHANGED <<next_id, trading_date, enable_transaction_fee,
                   init_portfolio, db_at_start, copy_log, runs, prev, dec,
                   steps, configured, planner_mode, workflow_analysts,
                   current_analysts, graph, active, executed, writes,
                   analyst_signals, state_portfolio, state_decision, seen,
                   calls, cs2_signal, save_failed, reg_vars, start_date,
                   end_date, current_date, batch_pc, batch_log>>

NextRerun == RerunStart \/ RerunTicker \/ PipelineError

SpecRerun == Init /\ [][NextRerun]_vars

---------------------------------------------------------------------------
(* Step Registry: AgentRegistry *)

PORTFOLIO == "portfolio"         \* AgentKey.PORTFOLIO

\* AgentRegistry.ANALYST_KEYS
ANALYST_KEYS ==
    <<"technical", "sentiment", "sentiment_reverse", "liquidity", "event">>

\* check_agent_key: key in cls.ANALYST_KEYS
check_agent_key(key) == \E i \in 1..Len(ANALYST_KEYS) : ANALYST_KEYS[i] = key

\* the mapping run_registry leaves: key -> agent function
run_registry ==
    [portfolio |-> "portfolio_agent", technical |-> "technical_agent",
     sentiment |-> "sentiment_agent",
     sentiment_reverse |-> "sentiment_reverse_agent",
     liquidity |-> "liquidity_agent", event |-> "event_agent"]

\* the identifiers a caller may resolve: the keys run_registry registers and
\* one that nothing registers
StepIds == DOMAIN run_registry \cup {"momentum"}

\* register_agent: cls.agent_func_mapping[key] = agent_func
register_agent(mapping, key, agent_func) ==
    [k \in DOMAIN mapping \cup {key} |->
        IF k = key THEN agent_func ELSE mapping[k]]

\* get_agent_func_by_key: cls.agent_func_mapping.get(key)
get_agent_func_by_key(mapping, key) ==
    IF key \in DOMAIN mapping THEN mapping[key] ELSE "None"

\* the class as defined: both mappings are empty dictionaries
InitRegistry ==
    /\ db = {}
    /\ clock = 1
    /\ next_id = 1
    /\ pc = "registry"
    /\ failure = ""
    /\ trading_date = 0
    /\ enable_transaction_fee = FALSE
    /\ idx = 0
    /\ portfolio = NoPortfolio
    /\ init_portfolio = NoPortfolio
    /\ db_at_start = {}
    /\ copy_log = [d \in 1..MaxDate |-> <<>>]
    /\ runs = 0
    /\ prev = NoPortfolio
    /\ dec = NoDecision
    /\ steps = 0
    /\ updates = 0
    /\ db_failed = ""
    /\ NoBatch
    /\ NoPipeline

\* one register_agent call of those run_registry makes
RegisterAgent ==
    /\ pc = "registry"
    /\ \E key \in DOMAIN run_registry :
         agent_func_mapping' =
             register_agent(agent_func_mapping, key, run_registry[key])
    /\ UNCHANGED <<db, clock, next_id, pc, failure, trading_date,
                   enable_transaction_fee, idx, portfolio, init_portfolio,
                   db_at_start, copy_log, runs, prev, dec, steps, updates, db_failed,
                   pipe_vars, resolved, drv_vars>>

\* one get_agent_func_by_key call
Resolve ==
    /\ pc = "registry"
    /\ \E key \in StepIds :
         resolved' = [key |-> key,
                      registered |-> key \in DOMAIN agent_func_mapping,
                      result |-> get_agent_func_by_key(agent_func_mapping,
                                                       key)]
    /\ UNCHANGED <<db, clock, next_id, pc, failure, trading_date,
                   enable_transaction_fee, idx, portfolio, init_portfolio,
                   db_at_start, copy_log, runs, prev, dec, steps, updates, db_failed,
                   pipe_vars, agent_func_mapping, drv_vars>>

NextRegistry == RegisterAgent \/ Resolve

SpecRegistry == InitRegistry /\ [][NextRegistry]_vars

---------------------------------------------------------------------------
(* Ticker Pipeline: AgentWorkflow.__init__ (analyst validation),            *)
(* load_analysts, build, and workflow.invoke on the compiled StateGraph     *)

START == "__start__"
END   == "__end__"

\* the identifiers a configuration may list: two analyst keys and one that
\* is not an analyst key
ConfigIds == {"sentiment", "sentiment_reverse", "momentum"}

\* the signals an analyst may return
SignalValues == {"Bullish", "Bearish", "Neutral"}

RECURSIVE SeqsUpTo(_, _)
\* the lists over S of length <= n
SeqsUpTo(S, n) ==
    IF n = 0 THEN {<<>>}
    ELSE LET shorter == SeqsUpTo(S, n - 1)
         IN  shorter \cup {Append(q, x) : q \in shorter, x \in S}

\* the workflow_analysts lists a configuration may carry
ConfigLists == SeqsUpTo(ConfigIds, MaxAnalysts)

Range(q) == {q[i] : i \in 1..Len(q)}

\* Mutant: one invalid key empties the whole list
validate_analysts_all_or_nothing(analysts) ==
    IF \E i \in 1..Len(analysts) : ~check_agent_key(analysts[i])
    THEN <<>> ELSE analysts

\* __init__: invalid_analysts are the keys check_agent_key rejects; the list
\* keeps the elements that are not in invalid_analysts
validate_analysts(analysts) ==
    LET IsInvalid(a) == ~check_agent_key(a)
        invalid_analysts == SelectSeq(analysts, IsInvalid)
        NotInInvalid(a) == a \notin Range(invalid_analysts)
    IN  IF analysts # <<>> /\ invalid_analysts # <<>>
        THEN SelectSeq(analysts, NotInInvalid)
        ELSE analysts

RECURSIVE Picked(_, _, _)
\* the elements of q at the positions in I, in the order of q
Picked(q, I, k) ==
    IF k > Len(q) THEN <<>>
    ELSE IF k \in I THEN <<q[k]>> \o Picked(q, I, k + 1)
         ELSE Picked(q, I, k + 1)

\* planner_agent(ticker, llm_config, workflow_analysts): a selection from
\* the list it is given, possibly empty, or an identifier the list does not
\* hold
planner_agent(analysts) ==
    {Picked(analysts, I, 1) : I \in SUBSET (1..Len(analysts))}
    \cup {<<x>> : x \in ConfigIds \ Range(analysts)}

\* Mutant: an empty planner selection falls back to the direct mode
load_analysts_empty_is_direct(analysts, planner, selection) ==
    IF analysts = <<>> THEN [raised |-> FALSE, current |-> <<>>]
    ELSE IF planner THEN [raised |-> FALSE, current |-> selection]
    ELSE [raised |-> FALSE, current |-> analysts]

\* load_analysts: the current_analysts of a ticker, or ValueError("No
\* analysts selected by planner"); selection is what planner_agent returned
load_analysts(analysts, planner, selection) ==
    IF analysts = <<>> THEN [raised |-> FALSE, current |-> <<>>]
    ELSE IF planner
         THEN [raised |-> selection = <<>>, current |-> selection]
         ELSE [raised |-> FALSE, current |-> analysts]

\* Mutant: START is wired to the portfolio manager in every mode
build_edges_always_direct(current) ==
    {<<START, current[i]>> : i \in 1..Len(current)}
    \cup {<<current[i], PORTFOLIO>> : i \in 1..Len(current)}
    \cup {<<START, PORTFOLIO>>, <<PORTFOLIO, END>>}

\* Mutant: START is wired to nothing when there are no analysts
build_edges_no_direct(current) ==
    {<<START, current[i]>> : i \in 1..Len(current)}
    \cup {<<current[i], PORTFOLIO>> : i \in 1..Len(current)}
    \cup {<<PORTFOLIO, END>>}

\* build: the edges added to the StateGraph
build_edges(current) ==
    (IF current # <<>>
     THEN {<<START, current[i]>> : i \in 1..Len(current)}
          \cup {<<current[i], PORTFOLIO>> : i \in 1..Len(current)}
     ELSE {<<START, PORTFOLIO>>})
    \cup {<<PORTFOLIO, END>>}

\* build: the nodes added to the StateGraph, each with the function the
\* registry resolves for its key
build_nodes(mapping, current) ==
    [n \in {PORTFOLIO} \cup Range(current) |->
        get_agent_func_by_key(mapping, n)]

\* add_node raises when the name is already a node of the graph or the
\* function is None
build_raises(mapping, current) ==
    \/ \E i, j \in 1..Len(current) : i # j /\ current[i] = current[j]
    \/ \E n \in {PORTFOLIO} \cup Range(current) :
          get_agent_func_by_key(mapping, n) = "None"

\* the nodes an edge leads to from the nodes in S; END is not a node
successors(edges, S) ==
    {e[2] : e \in {x \in edges : x[1] \in S}} \ {END}

\* an experiment before its first run: the schema exists, run_registry has
\* run, the configuration carries a workflow_analysts list and a
\* planner_mode and leaves the transaction fee at its default
InitPipe ==
    /\ db = {}
    /\ clock = 1
    /\ next_id = 1
    /\ pc = "p_idle"
    /\ failure = ""
    /\ trading_date = 0
    /\ enable_transaction_fee = TRUE
    /\ idx = 0
    /\ portfolio = NoPortfolio
    /\ init_portfolio = NoPortfolio
    /\ db_at_start = {}
    /\ copy_log = [d \in 1..MaxDate |-> <<>>]
    /\ runs = 0
    /\ prev = NoPortfolio
    /\ dec = NoDecision
    /\ steps = 0
    /\ updates = 0
    /\ db_failed = ""
    /\ NoBatch
    /\ configured \in ConfigLists
    /\ planner_mode \in BOOLEAN
    /\ workflow_analysts = <<>>
    /\ PipeIdle
    /\ agent_func_mapping = run_registry
    /\ resolved = NoResolve

\* run_single_experiment for the first trading date up to the end of
\* AgentWorkflow.__init__: as StartRun, and the configured analysts are
\* validated
PipeStart ==
    /\ pc = "p_idle"
    /\ runs' = runs + 1
    /\ db_at_start' = db
    /\ \E date \in {1}, cash \in StartCash :
         /\ trading_date' = date
         /\ IF order_violation(get_latest_trading_date(db), date)
            THEN /\ pc' = "failed"
                 /\ failure' = "order"
                 /\ idx' = 0
                 /\ portfolio' = NoPortfolio
                 /\ init_portfolio' = NoPortfolio
                 /\ UNCHANGED <<db, clock, next_id, copy_log,
                                workflow_analysts>>
            ELSE LET fresh == db = {}
                     d1 == IF fresh
                           THEN {create_portfolio(cash, date, next_id, clock)}
                           ELSE db
                     id2 == IF fresh THEN next_id + 1 ELSE next_id
                     now2 == IF fresh THEN clock + 1 ELSE clock
                 IN  \E out \in copy_portfolio(d1, get_latest_portfolio(d1),
                                               date, id2, now2) :
                       /\ db' = out.db
                       /\ portfolio' = as_portfolio(out.ret)
                       /\ init_portfolio' = as_portfolio(out.ret)
                       /\ copy_log' = [copy_log EXCEPT
                                         ![date] = Append(@, out.ret.id)]
                       /\ next_id' = IF out.ret.id = id2
                                     THEN id2 + 1 ELSE id2
                       /\ clock' = IF out.ret.id = id2
                                   THEN now2 + 1 ELSE now2
                       /\ workflow_analysts' = validate_analysts(configured)
                       /\ pc' = "p_load"
                       /\ failure' = ""
                       /\ idx' = 1
    /\ updates' = 0
    /\ db_failed' = ""
    /\ UNCHANGED <<enable_transaction_fee, prev, dec, steps, configured,
                   planner_mode, current_analysts, graph, active, executed,
                   writes, analyst_signals, state_portfolio, state_decision,
                   seen, calls, applied, cs2_signal, save_failed, reg_vars, drv_vars>>

\* The head of one iteration of the ticker loop of run(): load_analysts,
\* the FundState of the ticker, build, and the start of workflow.invoke.
LoadAnalysts ==
    /\ pc = "p_load"
    /\ idx <= Len(tickers)
    /\ LET planned == workflow_analysts # <<>> /\ planner_mode
       IN  \E selection \in (IF planned THEN planner_agent(workflow_analysts)
                                        ELSE {<<>>}) :
             LET la == load_analysts(workflow_analysts, planner_mode,
                                     selection)
                 edges == build_edges(la.current)
                 first == successors(edges, {START})
             IN  /\ calls' = [NoCalls EXCEPT
                                !.planner = IF planned THEN 1 ELSE 0,
                                !.planner_ret = selection,
                                !.analysts = [n \in Range(la.current) |-> 0]]
                 /\ current_analysts' = la.current
                 /\ IF la.raised
                       \/ build_raises(agent_func_mapping, la.current)
                    THEN /\ pc' = "failed"
                         /\ failure' = IF la.raised THEN "no_analysts"
                                                    ELSE "build"
                         /\ UNCHANGED <<graph, active, executed, writes,
                                        analyst_signals, state_portfolio,
                                        seen>>
                    ELSE /\ graph' = [nodes |-> build_nodes(
                                                   agent_func_mapping,
                                                   la.current),
                                      edges |-> edges]
                         /\ state_portfolio' = portfolio
                         /\ analyst_signals' = {}
                         /\ active' = first
                         /\ executed' = {}
                         /\ writes' = {}
                         /\ seen' = <<>>
                         /\ pc' = IF first = {} THEN "p_apply" ELSE "p_exec"
                         /\ failure' = ""
    /\ UNCHANGED <<db, clock, next_id, trading_date, enable_transaction_fee,
                   idx, portfolio, init_portfolio, db_at_start, copy_log,
                   runs, prev, dec, steps, updates, db_failed, configured, planner_mode,
                   workflow_analysts, state_decision, applied, cs2_signal,
                   save_failed, reg_vars, drv_vars>>

\* workflow.invoke: node n of the current superstep has returned new_writes.
\* When every node of the superstep has returned, the writes are added to
\* the state and the nodes the edges lead to form the next superstep; the
\* invocation returns when none is left.
FinishNode(n, new_writes) ==
    IF executed \cup {n} = active
    THEN LET nxt == successors(graph.edges, active)
         IN  /\ analyst_signals' = analyst_signals \cup writes \cup new_writes
             /\ writes' = {}
             /\ executed' = {}
             /\ active' = nxt
             /\ pc' = IF nxt = {} THEN "p_apply" ELSE "p_exec"
    ELSE /\ executed' = executed \cup {n}
         /\ writes' = writes \cup new_writes
         /\ UNCHANGED <<active, analyst_signals, pc>>

\* the analysts under which running analyst n calls save_signal:
\* sentiment_reverse_agent first calls sentiment_agent, which saves its own
\* signal, and then saves the reversed one
saved_analysts(n) ==
    IF n = "sentiment_reverse" THEN <<"sentiment", n>> ELSE <<n>>

\* the cs2_signal rows an analyst's save_signal calls insert
signal_rows(n, portfolio_id, ticker) ==
    [i \in 1..Len(saved_analysts(n)) |->
        [portfolio_id |-> portfolio_id, analyst |-> saved_analysts(n)[i],
         item_name |-> ticker]]

\* An analyst node runs: its data fetch succeeds or raises inside the
\* agent's try block, agent_call returns the signal the model gives for the
\* prompt, save_signal inserts a row or returns None, and the node returns
\* {"analyst_signals": [signal]}.  At most one fetch of a pipeline and one
\* save of a run fail.
ExecAnalyst ==
    /\ pc = "p_exec"
    /\ \E n \in (active \ executed) \ {PORTFOLIO}, sig \in SignalValues,
          fetch_ok \in BOOLEAN, save_ok \in BOOLEAN :
         LET signal == [analyst |-> n, signal |-> sig]
         IN  /\ fetch_ok \/ calls.fetch_failed = {}
             /\ save_ok \/ ~save_failed
             /\ calls' = [calls EXCEPT
                            !.analysts[n] = @ + 1,
                            !.order = Append(@, n),
                            !.produced = @ \cup {signal},
                            !.fetch_failed = IF fetch_ok THEN @
                                                        ELSE @ \cup {n}]
             /\ cs2_signal' =
                   IF save_ok
                   THEN cs2_signal \o signal_rows(n, state_portfolio.id,
                                                  tickers[idx])
                   ELSE cs2_signal
             /\ save_failed' = (save_failed \/ ~save_ok)
             /\ FinishNode(n, {signal})
    /\ UNCHANGED <<db, clock, next_id, failure, trading_date,
                   enable_transaction_fee, idx, portfolio, init_portfolio,
                   db_at_start, copy_log, runs, prev, dec, steps, updates, db_failed,
                   configured, planner_mode, workflow_analysts,
                   current_analysts, graph, state_portfolio, state_decision,
                   seen, applied, reg_vars, drv_vars>>

\* what the portfolio manager's model may answer: a Decision of a run, or
\* one that asks for a negative number of shares
LlmDecisions ==
    RunDecisions \cup [action : {"Buy", "Sell"}, shares : {0 - 1}, price : {1}]

\* Mutant: a Decision is accepted whatever its shares
decision_valid_any(d) == TRUE

\* Decision validation: the requested shares are not negative
decision_valid(d) == d.shares >= 0

\* The portfolio manager node runs on the state of the superstep and
\* returns the Decision of the ticker; an answer that is not a valid
\* Decision raises, so workflow.invoke raises and run() re-raises
\* RuntimeError.
ExecDecision ==
    /\ pc = "p_exec"
    /\ PORTFOLIO \in active \ executed
    /\ seen' = Append(seen, analyst_signals)
    /\ \E d \in LlmDecisions :
         IF decision_valid(d)
         THEN /\ state_decision' = d
              /\ calls' = [calls EXCEPT !.decision = @ + 1]
              /\ FinishNode(PORTFOLIO, {})
              /\ UNCHANGED failure
         ELSE /\ calls' = [calls EXCEPT !.decision = @ + 1,
                                         !.rejected = Append(@, d)]
              /\ pc' = "failed"
              /\ failure' = "pipeline"
              /\ UNCHANGED <<state_decision, active, executed, writes,
                             analyst_signals>>
    /\ UNCHANGED <<db, clock, next_id, trading_date,
                   enable_transaction_fee, idx, portfolio, init_portfolio,
                   db_at_start, copy_log, runs, prev, dec, steps, updates, db_failed,
                   configured, planner_mode, workflow_analysts,
                   current_analysts, graph, state_portfolio, applied,
                   cs2_signal, save_failed, reg_vars, drv_vars>>

\* A node raises: workflow.invoke raises and run() re-raises RuntimeError.
InvokeError ==
    /\ pc = "p_exec"
    /\ pc' = "failed"
    /\ failure' = "pipeline"
    /\ UNCHANGED <<db, clock, next_id, trading_date, enable_transaction_fee,
                   idx, portfolio, init_portfolio, db_at_start, copy_log,
                   runs, prev, dec, steps, updates, db_failed, pipe_vars, reg_vars, drv_vars>>

\* Mutant: the result of update_portfolio_ticker is not kept
ApplyLedger_result_dropped ==
    /\ pc = "p_apply"
    /\ idx <= Len(tickers)
    /\ portfolio' = portfolio
    /\ IF idx < Len(tickers)
       THEN /\ pc' = "p_load"
            /\ UNCHANGED <<db, clock, failure, updates, db_failed>>
       ELSE LET res == update_portfolio(db, portfolio, trading_date, clock)
            IN  /\ db' = res.db
                /\ clock' = clock + 1
                /\ updates' = updates + 1
                /\ db_failed' = ""
                /\ pc' = IF res.success THEN "done" ELSE "failed"
                /\ failure' = IF res.success THEN "" ELSE "persist"
    /\ applied' = Append(applied, [ticker |-> tickers[idx],
                                   decision |-> state_decision])
    /\ current_analysts' = IF planner_mode THEN <<>> ELSE current_analysts
    /\ idx' = idx + 1
    /\ UNCHANGED <<next_id, trading_date, enable_transaction_fee,
                   init_portfolio, db_at_start, copy_log, runs, prev, dec,
                   steps, configured, planner_mode, workflow_analysts, graph,
                   active, executed, writes, analyst_signals,
                   state_portfolio, state_decision, seen, calls, cs2_signal,
                   save_failed, reg_vars, drv_vars>>

\* The tail of one iteration of the ticker loop: update_portfolio_ticker
\* with final_state["decision"], current_analysts reset in planner mode;
\* after the last ticker the final portfolio is written.
ApplyLedger ==
    /\ pc = "p_apply"
    /\ idx <= Len(tickers)
    /\ \E p2 \in update_portfolio_ticker(portfolio, tickers[idx],
                                         state_decision,
                                         enable_transaction_fee) :
         /\ portfolio' = p2
         /\ IF idx < Len(tickers)
            THEN /\ pc' = "p_load"
                 /\ UNCHANGED <<db, clock, failure, updates, db_failed>>
            ELSE LET res == update_portfolio(db, p2, trading_date, clock)
                 IN  /\ db' = res.db
                     /\ clock' = clock + 1
                     /\ updates' = updates + 1
                     /\ db_failed' = ""
                     /\ pc' = IF res.success THEN "done" ELSE "failed"
                     /\ failure' = IF res.success THEN "" ELSE "persist"
    /\ applied' = Append(applied, [ticker |-> tickers[idx],
                                   decision |-> state_decision])
    /\ current_analysts' = IF planner_mode THEN <<>> ELSE current_analysts
    /\ idx' = idx + 1
    /\ UNCHANGED <<next_id, trading_date, enable_transaction_fee,
                   init_portfolio, db_at_start, copy_log, runs, prev, dec,
                   steps, configured, planner_mode, workflow_analysts, graph,
                   active, executed, writes, analyst_signals,
                   state_portfolio, state_decision, seen, calls, cs2_signal,
                   save_failed, reg_vars, drv_vars>>

NextPipe ==
    \/ PipeStart
    \/ LoadAnalysts
    \/ ExecAnalyst
    \/ ExecDecision
    \/ InvokeError
    \/ ApplyLedger

SpecPipe == InitPipe /\ [][NextPipe]_vars

---------------------------------------------------------------------------
(* Properties of the Ledger Engine, checked under SpecLedger *)

Applied == pc = "ledger" /\ steps >= 1

\* shares of the last decision's ticker before the update (0 when absent)
held_before ==
    IF dec.ticker \in DOMAIN prev.positions
    THEN prev.positions[dec.ticker].shares ELSE 0

held_after == portfolio.positions[dec.ticker].shares

\* C1: after any sequence of applied decisions, starting from cashflow >= 0
\* and no negative holdings, every position has shares >= 0 and the
\* cashflow is >= 0.
C1_NonNegativeLedger ==
    /\ portfolio.cashflow >= 0
    /\ \A t \in DOMAIN portfolio.positions : portfolio.positions[t].shares >= 0

C5_HoldFrame ==
    (Applied /\ dec.action = "Hold") =>
        /\ portfolio.cashflow = prev.cashflow
        /\ \A t \in DOMAIN portfolio.positions :
              portfolio.positions[t].shares =
                 IF t \in DOMAIN prev.positions
                 THEN prev.positions[t].shares ELSE 0

\* a Hold that carries shares and a positive price, for a ticker that is held
C5_Witness ==
    /\ Applied /\ dec.action = "Hold" /\ dec.shares >= 1 /\ dec.price > 0
    /\ held_before >= 1
    /\ DOMAIN prev.positions = Tickers

---------------------------------------------------------------------------
(* Properties of the Trading-Date Driver and the persistence, under Spec *)

\* the trading date of the row written last
LastPersistedDate(d) ==
    IF d = {} THEN 0
    ELSE (CHOOSE r \in d : \A s \in d : s.updated_at <= r.updated_at)
            .trading_date

\* C7: there is at most one persisted snapshot per trading date (of the
\* config), and every copy_portfolio call for a date returned the id the
\* first call for that date returned.
C7_CopyIdempotent ==
    \A date \in 1..MaxDate :
        /\ \A r, s \in db :
              (r.trading_date = date /\ s.trading_date = date) => r = s
        /\ \A i \in 1..Len(copy_log[date]) :
              copy_log[date][i] = copy_log[date][1]

\* copy_portfolio was called a second time for a date whose snapshot
\* exists, in a run that follows a completed run
C7_Witness ==
    \E date \in 1..MaxDate :
        /\ Len(copy_log[date]) >= 2
        /\ pc = "running" /\ trading_date = date
        /\ \E r \in db : /\ r.trading_date = date
                         /\ r.id = copy_log[date][1]
                         /\ r.id = portfolio.id

\* C8: a run whose trading date is strictly earlier than the most recently
\* persisted trading date fails before a snapshot is created or copied and
\* before a ticker is processed.
C8_OrderCheckedFirst ==
    [][ (runs' = runs + 1
         /\ LastPersistedDate(db) # 0
         /\ trading_date' < LastPersistedDate(db))
        => (/\ pc' = "failed"
            /\ failure' = "order"
            /\ db' = db
            /\ copy_log' = copy_log
            /\ next_id' = next_id
            /\ idx' = 0) ]_vars

\* a run for an earlier date was refused after earlier runs had persisted
C8_Witness ==
    /\ pc = "failed" /\ failure = "order"
    /\ runs >= 2 /\ db # {} /\ db = db_at_start
    /\ trading_date < LastPersistedDate(db)

\* C9: when a ticker's pipeline raises, the run ends without
\* update_portfolio: every row that was there when the run started is
\* unchanged, and the row of the run's date holds the cashflow and positions
\* of the snapshot the run started from, not the ledger updates of the
\* earlier tickers.
C9_AbortPersistsNoMutation ==
    (pc = "failed" /\ failure = "pipeline") =>
        /\ db_at_start \subseteq db
        /\ \A r \in db :
              r.trading_date = trading_date =>
                 /\ r.id = init_portfolio.id
                 /\ r.cashflow = init_portfolio.cashflow
                 /\ r.positions = init_portfolio.positions
        /\ \A r \in db : r.trading_date # trading_date => r \in db_at_start

\* the pipeline of the second ticker raised after the first ticker's
\* decision had changed the in-memory portfolio
C9_Witness ==
    /\ pc = "failed" /\ failure = "pipeline" /\ idx = 2
    /\ portfolio.cashflow # init_portfolio.cashflow
    /\ portfolio.positions # init_portfolio.positions

\* C10: after a run for a new trading date (of a configuration that has
\* snapshots of earlier runs) aborts on a pipeline error, the set of
\* persisted snapshots and the latest persisted trading date are the same
\* as before the run started.
C10_AbortLeavesNoSnapshot ==
    (/\ pc = "failed" /\ failure = "pipeline"
     /\ db_at_start # {}
     /\ \A r \in db_at_start : r.trading_date # trading_date)
        => /\ db = db_at_start
           /\ LastPersistedDate(db) = LastPersistedDate(db_at_start)

\* C11: in a successful run update_portfolio is called exactly once, after
\* the ledger update of the last ticker; while tickers remain it has not
\* been called and the row of the date still holds the snapshot the run
\* started from.
C11_PersistOnceAfterLastTicker ==
    /\ pc = "running" =>
          /\ updates = 0
          /\ \A r \in db : r.trading_date = trading_date =>
                /\ r.cashflow = init_portfolio.cashflow
                /\ r.positions = init_portfolio.positions
    /\ pc = "done" =>
          /\ updates = 1
          /\ idx = Len(tickers) + 1
          /\ \A r \in db : r.trading_date = trading_date =>
                /\ r.cashflow = portfolio.cashflow
                /\ r.positions = portfolio.positions

\* a run succeeded after both tickers changed the portfolio, and the row of
\* its date holds the final portfolio
C11_Witness ==
    /\ pc = "done" /\ updates = 1 /\ idx = Len(tickers) + 1
    /\ Len(tickers) >= 2
    /\ DOMAIN portfolio.positions = Tickers
    /\ \A t \in Tickers : portfolio.positions[t].shares >= 1
    /\ \E r \in db : /\ r.trading_date = trading_date
                     /\ r.positions = portfolio.positions
                     /\ r.positions # init_portfolio.positions

\* the sum of the values of the positions of a row
RowPositionsValue(r) == SumValues(r.positions, DOMAIN r.positions)

\* C16: every persisted snapshot has
\* total_assets = cashflow + sum of the values of its positions.
C16_TotalAssets ==
    \A r \in db : r.total_assets = r.cashflow + RowPositionsValue(r)

\* a snapshot written by update_portfolio that holds valued positions, next
\* to one created by copy_portfolio from a snapshot with positions
C16_Witness ==
    /\ pc = "running"
    /\ \E r \in db : /\ r.trading_date < trading_date
                     /\ RowPositionsValue(r) >= 1
                     /\ r.total_assets > r.cashflow
    /\ \E r \in db : /\ r.trading_date = trading_date
                     /\ r.id = portfolio.id
                     /\ RowPositionsValue(r) >= 1
                     /\ r.total_assets > r.cashflow

\* the persisted snapshot with the greatest trading date
MostRecentSnapshot(d) ==
    CHOOSE r \in d : \A s \in d : s.trading_date <= r.trading_date

\* C17: a run that starts when no snapshot exists for its date adds exactly
\* one snapshot, which carries the cashflow and positions (and so the total
\* assets) of the most recent prior snapshot under a new id and the run's
\* date; when there is no snapshot at all the one created has the
\* configured starting cash, no positions and the run's date.
C17_CopyOnWrite ==
    [][ (runs' = runs + 1 /\ pc' = "running"
         /\ \A r \in db : r.trading_date # trading_date')
        => \E new \in db' :
             /\ db' = db \cup {new}
             /\ new.trading_date = trading_date'
             /\ \A r \in db : r.id # new.id
             /\ portfolio'.id = new.id
             /\ IF db = {}
                THEN /\ new.cashflow \in StartCash
                     /\ new.positions = <<>>
                     /\ new.total_assets = new.cashflow
                ELSE LET src == MostRecentSnapshot(db)
                     IN  /\ new.cashflow = src.cashflow
                         /\ new.positions = src.positions
                         /\ new.total_assets = src.total_assets ]_vars

\* a third date's snapshot was derived from the second date's snapshot,
\* which differs from the first date's
C17_Witness ==
    /\ pc = "running" /\ idx = 1 /\ Cardinality(db) = 3
    /\ \E a, b, c \in db :
         /\ a.trading_date < b.trading_date
         /\ b.trading_date < c.trading_date
         /\ c.trading_date = trading_date /\ c.id = portfolio.id
         /\ c.positions = b.positions /\ c.cashflow = b.cashflow
         /\ <<a.cashflow, a.positions>> # <<b.cashflow, b.positions>>

\* C18: no step of a run for date D changes the cashflow, positions or
\* total_assets of a persisted snapshot of another date, or removes it.
C18_OtherDatesImmutable ==
    [][ \A r \in db :
          r.trading_date # trading_date' =>
             \E s \in db' : /\ s.id = r.id
                            /\ s.trading_date = r.trading_date
                            /\ s.cashflow = r.cashflow
                            /\ s.positions = r.positions
                            /\ s.total_assets = r.total_assets ]_vars

\* a run wrote the changed portfolio of its date next to the snapshot of an
\* earlier date, which still holds the contents the run started from
C18_Witness ==
    /\ pc = "done" /\ updates = 1
    /\ portfolio.positions # init_portfolio.positions
    /\ \E r, s \in db : /\ r.trading_date < trading_date
                        /\ s.trading_date = trading_date
                        /\ r \in db_at_start
                        /\ s.positions = portfolio.positions
                        /\ r.positions = init_portfolio.positions
                        /\ r.cashflow = init_portfolio.cashflow

---------------------------------------------------------------------------
(* Properties of the Step Registry, under SpecRegistry *)

\* C19: resolving an identifier that was not registered fails with an
\* unknown-step error; it does not return a value.
C19_UnregisteredResolveFails ==
    (resolved.key # "" /\ ~resolved.registered) =>
        resolved.result = "UnknownStepError"

---------------------------------------------------------------------------
(* Properties of the Ticker Pipeline, under SpecPipe *)

\* the snapshot of the run's date as persisted when the run started; it is
\* not written again before the run ends
InitialSnapshot ==
    as_portfolio(CHOOSE r \in db : r.trading_date = trading_date)

RECURSIVE AfterDecisions(_, _, _)
\* the portfolios that applying the first k entries of ds to p0 can give
AfterDecisions(p0, ds, k) ==
    IF k = 0 THEN {p0}
    ELSE UNION {update_portfolio_ticker(p, ds[k].ticker, ds[k].decision,
                                        enable_transaction_fee) :
                   p \in AfterDecisions(p0, ds, k - 1)}

\* C12: tickers are processed one at a time in the given order, and the
\* portfolio in the FundState of the k-th ticker's pipeline is the date's
\* initial snapshot with the decisions of tickers 1..k-1 applied in order.
C12_PortfolioThreaded ==
    pc \in {"p_exec", "p_apply"} =>
        /\ Len(applied) = idx - 1
        /\ \A k \in 1..Len(applied) : applied[k].ticker = tickers[k]
        /\ state_portfolio \in
              AfterDecisions(InitialSnapshot, applied, idx - 1)

\* the pipeline of the second ticker runs on a portfolio that the first
\* ticker's decision changed
C12_Witness ==
    /\ pc = "p_exec" /\ idx = 2 /\ Len(applied) = 1
    /\ applied[1].ticker = tickers[1]
    /\ state_portfolio.cashflow # InitialSnapshot.cashflow
    /\ state_portfolio.positions # InitialSnapshot.positions

\* C13: in planned mode, when the planner returns an empty selection for a
\* ticker the run has failed with the no-analysts error: the ticker and the
\* later ones are not processed, update_portfolio is not called and the row
\* of the date holds the snapshot the run started from; a failed run takes
\* no further step.
C13_EmptySelectionFails ==
    /\ []((calls.planner >= 1 /\ calls.planner_ret = <<>>) =>
            /\ planner_mode
            /\ pc = "failed" /\ failure = "no_analysts"
            /\ calls.decision = 0 /\ calls.order = <<>>
            /\ Len(applied) = idx - 1
            /\ updates = 0
            /\ InitialSnapshot.cashflow = init_portfolio.cashflow
            /\ InitialSnapshot.positions = init_portfolio.positions
            /\ \A r \in db : r.trading_date = trading_date)
    /\ [][pc = "failed" => FALSE]_vars

\* the planner returned nothing for the second ticker after the first
\* ticker's decision had changed the in-memory portfolio
C13_Witness ==
    /\ pc = "failed" /\ failure = "no_analysts" /\ idx = 2
    /\ calls.planner = 1 /\ calls.planner_ret = <<>>
    /\ Len(applied) = 1
    /\ portfolio.positions # init_portfolio.positions
    /\ InitialSnapshot.positions = init_portfolio.positions

\* C14: in direct mode no planner and no analyst is invoked for any ticker;
\* the portfolio manager runs exactly once per ticker, on an empty signal
\* list, and its one Decision is applied to the ledger.
C14_DirectMode ==
    (pc # "p_idle" /\ failure # "order" /\ workflow_analysts = <<>>) =>
        /\ calls.planner = 0
        /\ calls.order = <<>> /\ calls.produced = {}
        /\ calls.decision <= 1
        /\ Len(applied) = idx - 1
        /\ pc = "p_exec" => active = {PORTFOLIO}
        /\ pc = "p_apply" =>
              /\ calls.decision = 1
              /\ seen = <<{}>>
        /\ \A k \in 1..Len(applied) :
              /\ applied[k].ticker = tickers[k]
              /\ applied[k].decision \in RunDecisions
        /\ pc = "done" => Len(applied) = Len(tickers)

\* a direct-mode run of a configuration whose list held only an invalid
\* key ended after one decision per ticker
C14_Witness ==
    /\ pc = "done" /\ workflow_analysts = <<>> /\ configured # <<>>
    /\ Len(applied) = Len(tickers)
    /\ calls.decision = 1 /\ calls.planner = 0 /\ seen = <<{}>>

\* C15: in every pipeline the portfolio manager runs at most once, and
\* when it has run every selected analyst had run exactly once before it and
\* the signals it read are exactly the signals the analysts returned, one
\* per selected analyst, whatever the order the analysts ran in; a pipeline
\* that returned has run it exactly once.
C15_DecisionAfterAllAnalysts ==
    pc \in {"p_exec", "p_apply"} =>
        /\ calls.decision <= 1
        /\ pc = "p_apply" => calls.decision = 1
        /\ calls.decision = 1 =>
              /\ Len(seen) = 1
              /\ seen[1] = calls.produced
              /\ \A a \in Range(current_analysts) :
                    /\ calls.analysts[a] = 1
                    /\ Cardinality({x \in seen[1] : x.analyst = a}) = 1
              /\ \A x \in seen[1] : x.analyst \in Range(current_analysts)
              /\ Len(calls.order) = Len(current_analysts)

\* the portfolio manager read the signals of two analysts that ran in the
\* order opposite to the order of the list
C15_Witness ==
    /\ pc = "p_apply" /\ calls.decision = 1
    /\ Len(current_analysts) = 2
    /\ calls.order = <<current_analysts[2], current_analysts[1]>>
    /\ Cardinality(seen[1]) = 2
    /\ \E x, y \in seen[1] : x.signal # y.signal

\* is a valid analyst key
IsAnalystKey(a) == a \in Range(ANALYST_KEYS)

\* C20: construction never fails on an unknown identifier; afterwards
\* workflow_analysts holds exactly the configured identifiers that are
\* analyst keys, in their configured order, and when none is the run is in
\* direct mode.
C20_UnknownDropped ==
    /\ [](pc # "p_idle" =>
            /\ workflow_analysts = SelectSeq(configured, IsAnalystKey)
            /\ failure \in {"", "no_analysts", "build", "pipeline"}
            /\ (\A i \in 1..Len(configured) : ~IsAnalystKey(configured[i]))
                  => /\ workflow_analysts = <<>>
                     /\ calls.planner = 0
                     /\ pc \in {"p_load", "p_exec", "p_apply", "done",
                                "failed"}
                     /\ pc = "p_exec" => active = {PORTFOLIO}
                     /\ pc = "failed" => failure = "pipeline")
    /\ [][pc = "p_idle" => pc' = "p_load"]_vars

\* a configuration that lists an unknown identifier before an analyst key
\* runs with the analyst key alone
C20_Witness ==
    /\ pc = "p_exec"
    /\ Len(configured) = 2 /\ ~IsAnalystKey(configured[1])
    /\ workflow_analysts = <<configured[2]>>
    /\ active = {configured[2]}

\* C21: an analyst whose data fetch failed has completed its step in the
\* ticker's pipeline, has returned exactly one signal, and the signal is
\* Neutral.
C21_FetchFailureNeutral ==
    \A n \in calls.fetch_failed :
        /\ calls.analysts[n] = 1
        /\ n \in Range(calls.order)
        /\ Cardinality({x \in calls.produced : x.analyst = n}) = 1
        /\ \A x \in calls.produced : x.analyst = n => x.signal = "Neutral"

\* C23: once a save_signal call of the run has returned None the run does
\* not complete, and the row of the date keeps the snapshot the run started
\* from.
C23_SignalSaveFailureFatal ==
    save_failed =>
        /\ pc # "done"
        /\ updates = 0
        /\ \A r \in db : r.trading_date = trading_date =>
              /\ r.cashflow = init_portfolio.cashflow
              /\ r.positions = init_portfolio.positions

ConfiguredTwice ==
    \E i, j \in 1..Len(configured) :
        i # j /\ configured[i] = configured[j] /\ IsAnalystKey(configured[i])

\* C25: when the configured list names a valid identifier more than once
\* the working list holds it once, the analyst runs at most once in a
\* pipeline and the run does not fail on building the pipeline.
C25_DuplicatesRunOnce ==
    (pc # "p_idle" /\ ConfiguredTwice) =>
        /\ failure # "build"
        /\ \A n \in DOMAIN calls.analysts : calls.analysts[n] <= 1
        /\ pc \in {"p_exec", "p_apply"} =>
              \A i, j \in 1..Len(current_analysts) :
                  current_analysts[i] = current_analysts[j] => i = j

RowsOf(a) ==
    {i \in 1..Len(cs2_signal) :
        /\ cs2_signal[i].analyst = a
        /\ cs2_signal[i].item_name = tickers[idx]}

\* C28: when a ticker's pipeline has returned and every save succeeded,
\* cs2_signal holds for the ticker exactly one row per selected analyst,
\* under the analyst's key and the id of the date's snapshot, and no row
\* under the key of an analyst that was not selected.
C28_OneSignalPerSelectedStep ==
    (pc = "p_apply" /\ ~save_failed) =>
        /\ \A a \in StepIds :
              Cardinality(RowsOf(a)) =
                  IF a \in Range(current_analysts) THEN 1 ELSE 0
        /\ \A i \in 1..Len(cs2_signal) :
              cs2_signal[i].portfolio_id = InitialSnapshot.id

\* C22: a run in which create_portfolio, copy_portfolio or update_portfolio
\* failed has ended in the failed state, with a failure recorded, and is
\* not done; the failing call left the table as it was before the call.
C22_PersistenceFailureFatal ==
    db_failed # "" =>
        /\ pc = "failed"
        /\ failure # ""
        /\ db_failed = "create" => db = db_at_start
        /\ db_failed = "update" =>
              \A r \in db : r.trading_date = trading_date =>
                  /\ r.cashflow = init_portfolio.cashflow
                  /\ r.positions = init_portfolio.positions

\* update_portfolio failed after the last ticker of a run whose decisions
\* had changed the in-memory portfolio
C22_Witness ==
    /\ db_failed = "update" /\ pc = "failed"
    /\ portfolio.positions # init_portfolio.positions

\* cashflow + price * shares of the traded ticker before and after the last
\* update, in cents
worth_before == prev.cashflow + dec.price * held_before
worth_after == portfolio.cashflow + dec.price * held_after

C27_RerunIdempotent ==
    (first_run # NoRun /\ pc \in {"running", "done"}) =>
        /\ failure # "order"
        /\ portfolio.id = first_run.id
        /\ pc = "done" =>
              \A r \in db : r.trading_date = trading_date =>
                  /\ r.id = first_run.id
                  /\ r.cashflow = first_run.cashflow
                  /\ r.positions = first_run.positions

\* C30: the dates main has run are start_date, start_date + 1, ... without
\* a gap and not beyond end_date; every date but the last one run has
\* completed successfully; a failed date is the last one and main has
\* exited; main completes only after every date of the range succeeded.
C30_AscendingUntilFailure ==
    /\ \A i \in 1..Len(batch_log) :
          /\ batch_log[i].date = start_date + i - 1
          /\ batch_log[i].date <= end_date
          /\ i < Len(batch_log) => batch_log[i].result = "ok"
    /\ pc = "running" => trading_date = batch_log[Len(batch_log)].date
    /\ (\E i \in 1..Len(batch_log) : batch_log[i].result = "failed") =>
          batch_pc = "exit"
    /\ batch_pc = "completed" =>
          /\ Len(batch_log) = end_date - start_date + 1
          /\ \A i \in 1..Len(batch_log) : batch_log[i].result = "ok"

\* the second date of a range of three failed after the first had
\* succeeded: main exited and the third date was not run
C30_Witness ==
    /\ batch_pc = "exit" /\ end_date - start_date = 2
    /\ Len(batch_log) = 2
    /\ batch_log[1].result = "ok" /\ batch_log[2].result = "failed"

====
